---- MODULE Spec2Model ----
(***************************************************************************)
(* Digital Egiz ML service (examples/ml-service/main.py).                  *)
(*                                                                         *)
(* The service answers prediction requests on two channels: the HTTP       *)
(* handlers of the FastAPI app and a background task that consumes the     *)
(* Kafka topic ml.input.v1 and publishes to ml.output.v1.  Both call       *)
(* make_prediction.  The model follows asyncio's scheduling: one action    *)
(* runs a coroutine from one suspension point (an await that really        *)
(* waits) to the next.                                                     *)
(*                                                                         *)
(* JSON values are tagged records [t, v]; a JSON object is a set of        *)
(* <<key, value>> pairs.  uuid4() is modelled as a fresh number and        *)
(* datetime.now() as a logical clock, both read from results_made.         *)
(***************************************************************************)
EXTENDS Integers, Sequences, FiniteSets, TLC

\* Bounds of the model.
MaxMsgs == 2        \* records the environment appends to ml.input.v1
MaxRequests == 1    \* POST /predict requests served

VARIABLES
    app,             \* FastAPI lifecycle: "init", "starting", "serving", "shutdown"
    broker,          \* the Kafka broker as seen by the clients: "up" or "down"
    kafka_producer,  \* global kafka_producer: "None", "created", "started", "closed"
    MODELS,          \* global MODELS: sequence of entries in insertion order
    loop,            \* consume_kafka_messages task: "not_spawned", "spawned",
                     \*   "consuming", "publishing", "done"
    consumer,        \* local consumer: "none", "created", "started", "stopped"
    input_topic,     \* records of ml.input.v1
    offset,          \* position of the consumer in input_topic (next to read)
    pending,         \* the send the loop is awaiting, or NoPending
    output_topic,    \* records handed to the producer for ml.output.v1
    log,             \* records emitted through logger
    results_made,    \* PredictionOutput objects constructed so far
    capability_calls,\* invocations of a registry entry's "predict"
    http_requests,   \* POST /predict requests served so far
    http_response    \* the last HTTP response

vars == <<app, broker, kafka_producer, MODELS, loop, consumer, input_topic,
          offset, pending, output_topic, log, results_made, capability_calls,
          http_requests, http_response>>

----------------------------------------------------------------------------
\* JSON values

JNull == [t |-> "null"]
JArr == [t |-> "arr"]
JStr(s) == [t |-> "str", v |-> s]
JNum(n) == [t |-> "num", v |-> n]
JBool(b) == [t |-> "bool", v |-> b]
JObj(pairs) == [t |-> "obj", v |-> pairs]
JUuid(n) == [t |-> "uuid", v |-> n]
JTime(n) == [t |-> "time", v |-> n]

\* A presence test (x is not None) in place of the truth value.
TruthyIfNotNone(j) == j.t # "null"

\* Python truth value of a decoded JSON value (used by "not x").
Truthy(j) ==
    CASE j.t = "null" -> FALSE
      [] j.t = "str" -> j.v # ""
      [] j.t = "num" -> j.v # 0
      [] j.t = "bool" -> j.v
      [] j.t = "obj" -> j.v # {}
      [] OTHER -> TRUE

HasKey(obj, k) == \E p \in obj.v : p[1] = k

\* dict.get(k, default)
Get(obj, k, default) ==
    IF HasKey(obj, k) THEN (CHOOSE p \in obj.v : p[1] = k)[2] ELSE default

\* A value pydantic accepts for Dict[str, Union[float, int, str, bool]].
IsFeatureMap(j) ==
    /\ j.t = "obj"
    /\ \A p \in j.v : p[2].t \in {"num", "str", "bool"}

\* A value pydantic accepts for Optional[Dict[str, Any]].
IsMetadata(j) == j.t \in {"null", "obj"}

----------------------------------------------------------------------------
\* Model registry and capabilities

KAFKA_INPUT_TOPIC == "ml.input.v1"
KAFKA_OUTPUT_TOPIC == "ml.output.v1"

\* The dict literal bound to MODELS at import time.
InitialModels ==
    << [id |-> "anomaly_detection", model |-> "None", predict |-> "anomaly_lambda"],
       [id |-> "predictive_maintenance", model |-> "None", predict |-> "maintenance_lambda"] >>

\* Values of numpy's generator: np.random.random() in hundredths, and
\* int(np.random.normal(1000, 200)).
RandomDraws ==
    { [u1 |-> 10, u2 |-> 90, n |-> 1000],
      [u1 |-> 90, u2 |-> 10, n |-> 800] }

\* list(MODELS.keys())
ModelKeys(models) == [i \in 1..Len(models) |-> models[i].id]

\* model_id in MODELS
Registered(models, model_id) ==
    /\ model_id.t = "str"
    /\ \E i \in 1..Len(models) : models[i].id = model_id.v

\* MODELS[model_id]
ModelInfo(models, model_id) ==
    models[CHOOSE i \in 1..Len(models) : models[i].id = model_id.v]

\* model_info["predict"](data): the two lambdas of the registry.
Invoke(predict, data, rnd) ==
    IF predict = "anomaly_lambda"
    THEN JObj({ <<"anomaly_score", JNum(rnd.u1)>>,
                <<"is_anomaly", JBool(rnd.u2 > 80)>> })
    ELSE JObj({ <<"remaining_useful_life", JNum(rnd.n)>>,
                <<"failure_probability", JNum(rnd.u1)>> })

\* A result that does not carry the features it was computed from.
PredictionOutputNoEcho(n, model_id, predictions, input_features, metadata) ==
    [ prediction_id |-> JUuid(n),
      model_id |-> model_id,
      predictions |-> predictions,
      timestamp |-> JTime(n),
      input_features |-> JObj({}),
      metadata |-> metadata ]

\* A result whose prediction_id default was evaluated once, at class
\* definition, instead of by a factory at each construction.
PredictionOutputSharedId(n, model_id, predictions, input_features, metadata) ==
    [ prediction_id |-> JUuid(0),
      model_id |-> model_id,
      predictions |-> predictions,
      timestamp |-> JTime(n),
      input_features |-> input_features,
      metadata |-> metadata ]

\* PredictionOutput(...): prediction_id and timestamp come from the default
\* factories, the other fields from the keyword arguments.
PredictionOutput(n, model_id, predictions, input_features, metadata) ==
    [ prediction_id |-> JUuid(n),
      model_id |-> model_id,
      predictions |-> predictions,
      timestamp |-> JTime(n),
      input_features |-> input_features,
      metadata |-> metadata ]

\* A dispatch that falls back to the first entry of the registry when the
\* model is unknown, instead of raising.
make_prediction_fallback(models, model_id, features, metadata, rnd, n) ==
    LET model_info == IF Registered(models, model_id)
                      THEN ModelInfo(models, model_id) ELSE models[1]
        predictions == Invoke(model_info.predict, features, rnd)
    IN  IF IsFeatureMap(features) /\ IsMetadata(metadata)
        THEN [raised |-> "", invoked |-> TRUE, built |-> TRUE,
              result |-> PredictionOutput(n, model_id, predictions,
                                          features, metadata)]
        ELSE [raised |-> "ValidationError", invoked |-> TRUE, built |-> FALSE]

\* make_prediction: n numbers the PredictionOutput it may construct.
\* "raised" is the exception that leaves the call ("" when it returns),
\* "invoked" whether the capability was called, "built" whether a
\* PredictionOutput was constructed.
make_prediction(models, model_id, features, metadata, rnd, n) ==
    IF ~Registered(models, model_id)
    THEN [raised |-> "HTTPException404", invoked |-> FALSE, built |-> FALSE]
    ELSE LET model_info == ModelInfo(models, model_id)
             predictions == Invoke(model_info.predict, features, rnd)
         IN  IF IsFeatureMap(features) /\ IsMetadata(metadata)
             THEN [raised |-> "", invoked |-> TRUE, built |-> TRUE,
                   result |-> PredictionOutput(n, model_id, predictions,
                                               features, metadata)]
             ELSE [raised |-> "ValidationError", invoked |-> TRUE, built |-> FALSE]

----------------------------------------------------------------------------
\* Wire format

\* msg.value: bytes.  "valid" says whether they are UTF-8 JSON text, "doc"
\* is the JSON document they spell.
Bytes(doc) == [valid |-> TRUE, doc |-> doc]
Garbage == [valid |-> FALSE, doc |-> JNull]

\* json.loads(msg.value.decode())
Decode(value) ==
    IF value.valid THEN [ok |-> TRUE, payload |-> value.doc]
                   ELSE [ok |-> FALSE, payload |-> JNull]

\* json.dumps(prediction_result.dict()).encode()
Encode(result) ==
    Bytes(JObj({ <<"prediction_id", result.prediction_id>>,
                 <<"model_id", result.model_id>>,
                 <<"predictions", result.predictions>>,
                 <<"timestamp", result.timestamp>>,
                 <<"input_features", result.input_features>>,
                 <<"metadata", result.metadata>> }))

----------------------------------------------------------------------------
\* Inputs

FeaturesX == JObj({ <<"x", JNum(1)>> })
FeaturesNone == JObj({ <<"x", JNull>> })
MetadataKV == JObj({ <<"source", JStr("sensor")>> })

\* Records the environment may append to ml.input.v1.
InboundMessages ==
    { Garbage,
      Bytes(JArr),
      Bytes(JObj({ <<"features", FeaturesX>> })),
      Bytes(JObj({ <<"model_id", JStr("anomaly_detection")>> })),
      Bytes(JObj({ <<"model_id", JStr("")>>,
                   <<"features", FeaturesX>> })),
      Bytes(JObj({ <<"model_id", JStr("anomaly_detection")>>,
                   <<"features", JObj({})>> })),
      Bytes(JObj({ <<"model_id", JStr("unknown_model")>>,
                   <<"features", FeaturesX>> })),
      Bytes(JObj({ <<"model_id", JStr("anomaly_detection")>>,
                   <<"features", FeaturesNone>> })),
      Bytes(JObj({ <<"model_id", JStr("anomaly_detection")>>,
                   <<"features", FeaturesX>> })),
      Bytes(JObj({ <<"model_id", JStr("predictive_maintenance")>>,
                   <<"features", FeaturesX>>,
                   <<"metadata", MetadataKV>> })) }

\* The records among them that carry a model_id and a non-empty features
\* map of scalars.
RequestMessages ==
    { m \in InboundMessages :
        /\ m.valid
        /\ m.doc.t = "obj"
        /\ Truthy(Get(m.doc, "model_id", JNull))
        /\ Truthy(Get(m.doc, "features", JObj({})))
        /\ IsFeatureMap(Get(m.doc, "features", JObj({}))) }

\* POST /predict/{path} requests that pass the framework's validation of
\* the body against PredictionInput (metadata defaults to None).
PredictRequests ==
    { [path |-> "anomaly_detection",
       data |-> [model_id |-> "ignored", features |-> FeaturesX, metadata |-> JNull]],
      [path |-> "anomaly_detection",
       data |-> [model_id |-> "anomaly_detection", features |-> JObj({}), metadata |-> JNull]],
      [path |-> "predictive_maintenance",
       data |-> [model_id |-> "anomaly_detection", features |-> FeaturesX, metadata |-> MetadataKV]],
      [path |-> "unknown_model",
       data |-> [model_id |-> "anomaly_detection", features |-> FeaturesX, metadata |-> JNull]] }

----------------------------------------------------------------------------
\* Logging and exception handlers

Line(level, text, err, at) == [level |-> level, text |-> text, err |-> err, at |-> at]

NoPending == [at |-> 0, value |-> Garbage]
NoResponse == [route |-> "none", status |-> 0]

\* except Exception of start_kafka: log, stop the producer if one was
\* created, and forget it.
StartKafkaExcept(e) ==
    [ kafka_producer |-> "None",
      line |-> Line("ERROR", "Failed to start Kafka", e, 0) ]

\* A handler that lets the exception leave the loop: what the loop would do
\* without its inner try.
PerMessageExceptPropagates(e, at) ==
    [ loop |-> "done", consumer |-> "stopped",
      line |-> Line("ERROR", "Kafka consumer error", e, at) ]

\* The inner "except Exception" of consume_kafka_messages: log and go on
\* with the next iteration of "async for".
PerMessageExcept(e, at) ==
    [ loop |-> "consuming", consumer |-> "started",
      line |-> Line("ERROR", "Error processing message", e, at) ]

\* consumer.stop() placed where it also runs when consumer.start() raised.
ConsumerExceptStopsAlways(e, started) ==
    [ loop |-> "done", consumer |-> "stopped",
      line |-> Line("ERROR", "Kafka consumer error", e, 0) ]

\* The outer "except Exception" of consume_kafka_messages, reached after
\* "finally: await consumer.stop()" when the consumer had been started.
ConsumerExcept(e, started) ==
    [ loop |-> "done", consumer |-> IF started THEN "stopped" ELSE "created",
      line |-> Line("ERROR", "Kafka consumer error", e, 0) ]

\* One iteration of the loop body from msg to its first suspension point
\* (await kafka_producer.send) or to the end of the iteration.
ProcessMessage(models, producer, value, rnd, n) ==
    LET d == Decode(value)
        payload == d.payload
        model_id == Get(payload, "model_id", JNull)
        features == Get(payload, "features", JObj({}))
        metadata == Get(payload, "metadata", JObj({}))
        r == make_prediction(models, model_id, features, metadata, rnd, n)
        none == [received |-> d.ok, invoked |-> FALSE, built |-> FALSE,
                 err |-> "", value |-> Garbage]
    IN  IF ~d.ok THEN [none EXCEPT !.err = "JSONDecodeError"] @@ [kind |-> "error"]
        ELSE IF payload.t # "obj"
        THEN [none EXCEPT !.err = "AttributeError"] @@ [kind |-> "error"]
        ELSE IF ~Truthy(model_id) \/ ~Truthy(features)
        THEN none @@ [kind |-> "invalid"]
        ELSE IF r.raised # ""
        THEN [none EXCEPT !.err = r.raised, !.invoked = r.invoked] @@ [kind |-> "error"]
        ELSE LET made == [none EXCEPT !.invoked = TRUE, !.built = TRUE,
                                      !.value = Encode(r.result)]
             IN  IF producer = "None" THEN made @@ [kind |-> "no_producer"]
                 ELSE IF producer = "closed"
                 THEN [made EXCEPT !.err = "ProducerClosed"] @@ [kind |-> "error"]
                 ELSE made @@ [kind |-> "send"]

----------------------------------------------------------------------------
\* Initial state: the module has been imported, nothing has run.

Init ==
    /\ app = "init"
    /\ broker \in {"up", "down"}
    /\ kafka_producer = "None"
    /\ MODELS = InitialModels
    /\ loop = "not_spawned"
    /\ consumer = "none"
    /\ input_topic = << >>
    /\ offset = 1
    /\ pending = NoPending
    /\ output_topic = << >>
    /\ log = << >>
    /\ results_made = 0
    /\ capability_calls = 0
    /\ http_requests = 0
    /\ http_response = NoResponse

----------------------------------------------------------------------------
\* Environment

BrokerDown ==
    /\ broker = "up"
    /\ broker' = "down"
    /\ UNCHANGED <<app, kafka_producer, MODELS, loop, consumer, input_topic,
                   offset, pending, output_topic, log, results_made,
                   capability_calls, http_requests, http_response>>

BrokerUp ==
    /\ broker = "down"
    /\ broker' = "up"
    /\ UNCHANGED <<app, kafka_producer, MODELS, loop, consumer, input_topic,
                   offset, pending, output_topic, log, results_made,
                   capability_calls, http_requests, http_response>>

\* Some client appends a record drawn from msgs to ml.input.v1.
Append_input(msgs) ==
    /\ Len(input_topic) < MaxMsgs
    /\ \E m \in msgs : input_topic' = Append(input_topic, m)
    /\ UNCHANGED <<app, broker, kafka_producer, MODELS, loop, consumer,
                   offset, pending, output_topic, log, results_made,
                   capability_calls, http_requests, http_response>>

Produce == Append_input(InboundMessages)

ProduceRequest == Append_input(RequestMessages)

----------------------------------------------------------------------------
\* startup_event -> start_kafka

\* kafka_producer = AIOKafkaProducer(...); await kafka_producer.start()
StartKafka ==
    /\ app = "init"
    /\ app' = "starting"
    /\ kafka_producer' = "created"
    /\ UNCHANGED <<broker, MODELS, loop, consumer, input_topic, offset,
                   pending, output_topic, log, results_made,
                   capability_calls, http_requests, http_response>>

\* start() returned: log, create the consumer task, return from the hook.
ProducerStarted ==
    /\ app = "starting"
    /\ broker = "up"
    /\ kafka_producer' = "started"
    /\ log' = Append(log, Line("INFO", "Kafka producer started", "", 0))
    /\ loop' = "spawned"
    /\ app' = "serving"
    /\ UNCHANGED <<broker, MODELS, consumer, input_topic, offset, pending,
                   output_topic, results_made, capability_calls,
                   http_requests, http_response>>

\* start() raised: the except branch, then return from the hook.
ProducerStartFailed ==
    /\ app = "starting"
    /\ broker = "down"
    /\ LET h == StartKafkaExcept("KafkaConnectionError")
       IN  /\ kafka_producer' = h.kafka_producer
           /\ log' = Append(log, h.line)
    /\ app' = "serving"
    /\ UNCHANGED <<broker, MODELS, loop, consumer, input_topic, offset,
                   pending, output_topic, results_made, capability_calls,
                   http_requests, http_response>>

----------------------------------------------------------------------------
\* shutdown_event

\* What shutdown_event does to the producer: if kafka_producer: stop().
ShutdownProducer(producer) == IF producer # "None" THEN "closed" ELSE producer

ShutdownEvent ==
    /\ app = "serving"
    /\ kafka_producer' = ShutdownProducer(kafka_producer)
    /\ app' = "shutdown"
    /\ UNCHANGED <<broker, MODELS, loop, consumer, input_topic, offset,
                   pending, output_topic, log, results_made,
                   capability_calls, http_requests, http_response>>

----------------------------------------------------------------------------
\* consume_kafka_messages (the task created by start_kafka)

\* consumer = AIOKafkaConsumer(..., auto_offset_reset="latest");
\* await consumer.start(): the consumer attaches behind the records
\* already in the topic.
ConsumerStarted ==
    /\ loop = "spawned"
    /\ broker = "up"
    /\ consumer' = "started"
    /\ offset' = Len(input_topic) + 1
    /\ log' = Append(log, Line("INFO", "Kafka consumer started", "", 0))
    /\ loop' = "consuming"
    /\ UNCHANGED <<app, broker, kafka_producer, MODELS, input_topic, pending,
                   output_topic, results_made, capability_calls,
                   http_requests, http_response>>

\* consumer.start() raised: the inner try is never entered.
ConsumerStartFailed ==
    /\ loop = "spawned"
    /\ broker = "down"
    /\ LET h == ConsumerExcept("KafkaConnectionError", FALSE)
       IN  /\ loop' = h.loop
           /\ consumer' = h.consumer
           /\ log' = Append(log, h.line)
    /\ UNCHANGED <<app, broker, kafka_producer, MODELS, input_topic, offset,
                   pending, output_topic, results_made, capability_calls,
                   http_requests, http_response>>

\* "async for msg in consumer" raised instead of yielding a record.
ConsumerFault ==
    /\ loop = "consuming"
    /\ LET h == ConsumerExcept("KafkaError", TRUE)
       IN  /\ loop' = h.loop
           /\ consumer' = h.consumer
           /\ log' = Append(log, h.line)
    /\ UNCHANGED <<app, broker, kafka_producer, MODELS, input_topic, offset,
                   pending, output_topic, results_made, capability_calls,
                   http_requests, http_response>>

\* "async for" yields the next record and the loop body runs up to
\* "await kafka_producer.send" or to the end of the iteration.
Receive ==
    /\ loop = "consuming"
    /\ offset <= Len(input_topic)
    /\ \E rnd \in RandomDraws :
         LET at == offset
             out == ProcessMessage(MODELS, kafka_producer, input_topic[at],
                                   rnd, results_made + 1)
             seen == IF out.received
                     THEN <<Line("INFO", "Received message", "", at)>>
                     ELSE << >>
             h == PerMessageExcept(out.err, at)
         IN  /\ offset' = offset + 1
             /\ capability_calls' = capability_calls + (IF out.invoked THEN 1 ELSE 0)
             /\ results_made' = results_made + (IF out.built THEN 1 ELSE 0)
             /\ \/ /\ out.kind = "error"
                   /\ loop' = h.loop
                   /\ consumer' = h.consumer
                   /\ log' = log \o seen \o <<h.line>>
                   /\ pending' = pending
                \/ /\ out.kind = "invalid"
                   /\ log' = log \o seen
                              \o <<Line("ERROR", "Invalid message format", "", at)>>
                   /\ UNCHANGED <<loop, consumer, pending>>
                \/ /\ out.kind = "no_producer"
                   /\ log' = log \o seen
                   /\ UNCHANGED <<loop, consumer, pending>>
                \/ /\ out.kind = "send"
                   /\ log' = log \o seen
                   /\ pending' = [at |-> at, value |-> out.value]
                   /\ loop' = "publishing"
                   /\ UNCHANGED consumer
    /\ UNCHANGED <<app, broker, kafka_producer, MODELS, input_topic,
                   output_topic, http_requests, http_response>>

\* A send that is not awaited in order: the record overtakes the ones
\* handed over before it.
SendReturnedOutOfOrder ==
    /\ loop = "publishing"
    /\ broker = "up"
    /\ output_topic' = <<[topic |-> KAFKA_OUTPUT_TOPIC, value |-> pending.value,
                           cause |-> pending.at]>> \o output_topic
    /\ log' = Append(log, Line("INFO", "Sent prediction result", "", pending.at))
    /\ pending' = NoPending
    /\ loop' = "consuming"
    /\ UNCHANGED <<app, broker, kafka_producer, MODELS, consumer, input_topic,
                   offset, results_made, capability_calls, http_requests,
                   http_response>>

\* A send whose record reaches the topic twice.
SendReturnedTwice ==
    /\ loop = "publishing"
    /\ broker = "up"
    /\ LET rec == [topic |-> KAFKA_OUTPUT_TOPIC, value |-> pending.value,
                   cause |-> pending.at]
       IN  output_topic' = output_topic \o <<rec, rec>>
    /\ log' = Append(log, Line("INFO", "Sent prediction result", "", pending.at))
    /\ pending' = NoPending
    /\ loop' = "consuming"
    /\ UNCHANGED <<app, broker, kafka_producer, MODELS, consumer, input_topic,
                   offset, results_made, capability_calls, http_requests,
                   http_response>>

\* kafka_producer.send returned: the record is in the producer's hands.
SendReturned ==
    /\ loop = "publishing"
    /\ broker = "up"
    /\ output_topic' = Append(output_topic,
                              [topic |-> KAFKA_OUTPUT_TOPIC, value |-> pending.value,
                               cause |-> pending.at])
    /\ log' = Append(log, Line("INFO", "Sent prediction result", "", pending.at))
    /\ pending' = NoPending
    /\ loop' = "consuming"
    /\ UNCHANGED <<app, broker, kafka_producer, MODELS, consumer, input_topic,
                   offset, results_made, capability_calls, http_requests,
                   http_response>>

\* A send that is tried again after it raised: the loop logs the failure
\* and keeps the record for another attempt.
SendRaisedRetries ==
    /\ loop = "publishing"
    /\ broker = "down" \/ kafka_producer = "closed"
    /\ \A k \in 1..Len(log) : log[k].at # pending.at \/ log[k].err = ""
    /\ log' = Append(log, Line("ERROR", "Error processing message",
                               IF kafka_producer = "closed" THEN "ProducerClosed"
                                                            ELSE "KafkaTimeoutError",
                               pending.at))
    /\ UNCHANGED <<app, broker, kafka_producer, MODELS, loop, consumer,
                   input_topic, offset, pending, output_topic, results_made,
                   capability_calls, http_requests, http_response>>

\* A send whose exception ends the task.
SendRaisedEndsLoop ==
    /\ loop = "publishing"
    /\ broker = "down" \/ kafka_producer = "closed"
    /\ loop' = "done"
    /\ consumer' = "stopped"
    /\ log' = Append(log, Line("ERROR", "Kafka consumer error",
                               IF kafka_producer = "closed" THEN "ProducerClosed"
                                                            ELSE "KafkaTimeoutError", 0))
    /\ pending' = NoPending
    /\ UNCHANGED <<app, broker, kafka_producer, MODELS, input_topic, offset,
                   output_topic, results_made, capability_calls,
                   http_requests, http_response>>

\* kafka_producer.send raised: the broker cannot be reached, or the
\* producer was stopped while the call was waiting.
SendRaised ==
    /\ loop = "publishing"
    /\ broker = "down" \/ kafka_producer = "closed"
    /\ LET e == IF kafka_producer = "closed" THEN "ProducerClosed"
                                             ELSE "KafkaTimeoutError"
           h == PerMessageExcept(e, pending.at)
       IN  /\ loop' = h.loop
           /\ consumer' = h.consumer
           /\ log' = Append(log, h.line)
    /\ pending' = NoPending
    /\ UNCHANGED <<app, broker, kafka_producer, MODELS, input_topic, offset,
                   output_topic, results_made, capability_calls,
                   http_requests, http_response>>

----------------------------------------------------------------------------
\* HTTP handlers (served between the startup and the shutdown hook)

\* A health check that reports the state of the bus connection.
health_check_of_bus(models) ==
    [status |-> IF kafka_producer = "started" THEN "healthy" ELSE "degraded",
     version |-> "0.1.0", models |-> ModelKeys(models)]

\* GET /health
health_check(models) ==
    [status |-> "healthy", version |-> "0.1.0", models |-> ModelKeys(models)]

\* A listing of the entries whose "model" has been loaded.
get_models_loaded(models) ==
    LET loaded == { i \in 1..Len(models) : models[i].model # "None" }
    IN  [i \in 1..Cardinality(loaded) |-> models[i].id]

\* GET /models
get_models(models) == ModelKeys(models)

\* A handler that dispatches on the model_id of the body.
predict_by_body(models, model_id, data, rnd, n) ==
    make_prediction(models, JStr(data.model_id), data.features, data.metadata,
                    rnd, n)

\* POST /predict/{model_id}: data.model_id = model_id, then
\* make_prediction(model_id, data.features, data.metadata).
predict(models, model_id, data, rnd, n) ==
    LET data1 == [data EXCEPT !.model_id = model_id]
    IN  make_prediction(models, JStr(model_id), data1.features, data1.metadata,
                        rnd, n)

HealthCheck ==
    /\ app = "serving"
    /\ http_response' = [route |-> "health", status |-> 200,
                         body |-> health_check(MODELS)]
    /\ UNCHANGED <<app, broker, kafka_producer, MODELS, loop, consumer,
                   input_topic, offset, pending, output_topic, log,
                   results_made, capability_calls, http_requests>>

GetModels ==
    /\ app = "serving"
    /\ http_response' = [route |-> "models", status |-> 200,
                         body |-> get_models(MODELS)]
    /\ UNCHANGED <<app, broker, kafka_producer, MODELS, loop, consumer,
                   input_topic, offset, pending, output_topic, log,
                   results_made, capability_calls, http_requests>>

\* A handler that also publishes the result it returns.
PredictAndPublish ==
    /\ app = "serving"
    /\ http_requests < MaxRequests
    /\ \E req \in PredictRequests, rnd \in RandomDraws :
         LET r == predict(MODELS, req.path, req.data, rnd, results_made + 1)
         IN  /\ http_response' =
                   IF r.raised = ""
                   THEN [route |-> "predict", request |-> req, status |-> 200,
                         body |-> r.result]
                   ELSE [route |-> "predict", request |-> req,
                         status |-> IF r.raised = "HTTPException404" THEN 404 ELSE 500]
             /\ output_topic' =
                   IF r.raised = "" /\ kafka_producer = "started"
                   THEN Append(output_topic,
                               [topic |-> KAFKA_OUTPUT_TOPIC,
                                value |-> Encode(r.result), cause |-> 0])
                   ELSE output_topic
             /\ capability_calls' = capability_calls + (IF r.invoked THEN 1 ELSE 0)
             /\ results_made' = results_made + (IF r.built THEN 1 ELSE 0)
    /\ http_requests' = http_requests + 1
    /\ UNCHANGED <<app, broker, kafka_producer, MODELS, loop, consumer,
                   input_topic, offset, pending, log>>

Predict ==
    /\ app = "serving"
    /\ http_requests < MaxRequests
    /\ \E req \in PredictRequests, rnd \in RandomDraws :
         LET r == predict(MODELS, req.path, req.data, rnd, results_made + 1)
         IN  /\ http_response' =
                   IF r.raised = ""
                   THEN [route |-> "predict", request |-> req, status |-> 200,
                         body |-> r.result]
                   ELSE [route |-> "predict", request |-> req,
                         status |-> IF r.raised = "HTTPException404" THEN 404 ELSE 500]
             /\ capability_calls' = capability_calls + (IF r.invoked THEN 1 ELSE 0)
             /\ results_made' = results_made + (IF r.built THEN 1 ELSE 0)
    /\ http_requests' = http_requests + 1
    /\ UNCHANGED <<app, broker, kafka_producer, MODELS, loop, consumer,
                   input_topic, offset, pending, output_topic, log>>

----------------------------------------------------------------------------
\* The bus side alone: the hooks, the broker and the consumer task.
NextBus ==
    \/ BrokerDown
    \/ BrokerUp
    \/ Produce
    \/ StartKafka
    \/ ProducerStarted
    \/ ProducerStartFailed
    \/ ShutdownEvent
    \/ ConsumerStarted
    \/ ConsumerStartFailed
    \/ ConsumerFault
    \/ Receive
    \/ SendReturned
    \/ SendRaised

SpecBus == Init /\ [][NextBus]_vars

\* The event loop runs every coroutine that is ready: the startup hook and
\* the consumer task take their next step once it is enabled.  Nothing
\* obliges the environment to produce records, change the broker, fault
\* the consumer or shut the process down.
FairSpecBus ==
    /\ SpecBus
    /\ WF_vars(StartKafka)
    /\ WF_vars(ProducerStarted \/ ProducerStartFailed)
    /\ WF_vars(ConsumerStarted \/ ConsumerStartFailed)
    /\ WF_vars(Receive)
    /\ WF_vars(SendReturned \/ SendRaised)

\* Both channels; the inbound records are the ones that carry a request.
Next ==
    \/ BrokerDown
    \/ BrokerUp
    \/ ProduceRequest
    \/ StartKafka
    \/ ProducerStarted
    \/ ProducerStartFailed
    \/ ShutdownEvent
    \/ ConsumerStarted
    \/ ConsumerStartFailed
    \/ ConsumerFault
    \/ Receive
    \/ SendReturned
    \/ SendRaised
    \/ HealthCheck
    \/ GetModels
    \/ Predict

Spec == Init /\ [][Next]_vars

----------------------------------------------------------------------------
\* Vocabulary of the properties

Last(q) == q[Len(q)]

\* Exceptions of kafka_producer.send and of the consumer itself.
PublishErrors == {"ProducerClosed", "KafkaTimeoutError"}
ConsumerErrors == {"KafkaConnectionError", "KafkaError"}
MessageErrors == {"JSONDecodeError", "AttributeError", "HTTPException404",
                  "ValidationError"}

\* Record i of the input topic was yielded to the loop body.
Delivered(i) == \E k \in 1..Len(log) : log[k].at = i

\* The loop body has finished with record i.
Finished(i) == Delivered(i) /\ pending.at # i

\* The publish call made for record i raised.
PublishFailed(i) ==
    \E k \in 1..Len(log) : log[k].at = i /\ log[k].err \in PublishErrors

\* Record i failed inside the loop body before any publish call.
MessageFailed(i) ==
    \E k \in 1..Len(log) :
        /\ log[k].at = i
        /\ log[k].err \in MessageErrors \/ log[k].text = "Invalid message format"

\* Positions of the output topic that answer record i.
Answers(i) == { k \in 1..Len(output_topic) : output_topic[k].cause = i }

\* The record decodes to an object with a model_id of the registry and a
\* non-empty features map of scalars.
WellFormedRegistered(m) ==
    /\ m \in RequestMessages
    /\ \E j \in 1..Len(InitialModels) :
           Get(m.doc, "model_id", JNull) = JStr(InitialModels[j].id)

----------------------------------------------------------------------------
\* C1: fault isolation.  However the records delivered to the loop fail
\* (undecodable, fields missing, unregistered model, capability or result
\* construction raising), the loop ends only through a failure of the
\* consumer itself, and every delivered record that is well-formed, names a
\* registered model and whose publish call did not fail for want of a live
\* producer has a record in the output topic.
C1_FaultIsolation ==
    /\ \A i \in 1..Len(input_topic) :
          (Finished(i) /\ WellFormedRegistered(input_topic[i]) /\ ~PublishFailed(i))
              => Answers(i) # {}
    /\ \A k \in 1..Len(log) :
          log[k].text = "Kafka consumer error" => log[k].err \in ConsumerErrors
    /\ loop = "done" => (log # << >> /\ Last(log).text = "Kafka consumer error")

\* A record failed in the loop body and a later record was published.
C1_Witness ==
    \E i, j \in 1..Len(input_topic) :
        /\ i < j
        /\ MessageFailed(i)
        /\ Answers(j) # {}
        /\ loop = "consuming"

\* C2: a well-formed record naming a registered model, processed while the
\* producer is live, has exactly one record in the output topic, and that
\* record's model_id is the inbound model_id; no record ever has two.
C2_ExactlyOnePublished ==
    \A i \in 1..Len(input_topic) :
        /\ Cardinality(Answers(i)) <= 1
        /\ (Finished(i) /\ WellFormedRegistered(input_topic[i]) /\ ~PublishFailed(i))
              => Cardinality(Answers(i)) = 1
        /\ \A k \in Answers(i) :
              /\ output_topic[k].topic = KAFKA_OUTPUT_TOPIC
              /\ output_topic[k].value.valid
              /\ Get(output_topic[k].value.doc, "model_id", JNull)
                     = Get(input_topic[i].doc, "model_id", JNull)

\* Two records were delivered and each has its one answer.
C2_Witness ==
    /\ Len(output_topic) = 2
    /\ \A i \in 1..Len(input_topic) : Cardinality(Answers(i)) = 1
    /\ loop = "consuming"

\* C3: whenever the publish call raises (broker unreachable, producer
\* closed), the exception is logged by the per-message handler and the
\* loop is back in consuming with its consumer still started.
C3_PublishFailureAbsorbed ==
    [][ (Len(log') > Len(log) /\ Last(log').err \in PublishErrors)
            => /\ loop' = "consuming"
               /\ consumer' = "started"
               /\ Last(log').text = "Error processing message" ]_vars

\* A publish call failed because the producer was closed, and the loop
\* went on to receive the next record.
C3_Witness ==
    \E i, j \in 1..Len(input_topic) :
        /\ i < j
        /\ \E k \in 1..Len(log) : log[k].at = i /\ log[k].err = "ProducerClosed"
        /\ Delivered(j)

----------------------------------------------------------------------------
\* The request and the inbound record ask for the same prediction: same
\* model, same features, same metadata supplied (none on either channel,
\* or the same map on both).
SameRequest(req, m) ==
    /\ m.valid /\ m.doc.t = "obj"
    /\ Get(m.doc, "model_id", JNull) = JStr(req.path)
    /\ Get(m.doc, "features", JNull) = req.data.features
    /\ IF HasKey(m.doc, "metadata")
       THEN Get(m.doc, "metadata", JNull) = req.data.metadata
       ELSE req.data.metadata = JNull

\* The names of the outputs of a prediction.
PredictionKeys(predictions) == { p[1] : p \in predictions.v }

\* C4: for the same request, the result returned by POST /predict and the
\* result published by the loop agree on model_id, input_features,
\* metadata and the shape of predictions.
C4_ChannelsAgree ==
    \A k \in 1..Len(output_topic) :
        (/\ http_response.route = "predict"
         /\ http_response.status = 200
         /\ SameRequest(http_response.request, input_topic[output_topic[k].cause]))
        => LET doc == output_topic[k].value.doc
               body == http_response.body
           IN  /\ Get(doc, "model_id", JNull) = body.model_id
               /\ Get(doc, "input_features", JNull) = body.input_features
               /\ PredictionKeys(Get(doc, "predictions", JNull))
                      = PredictionKeys(body.predictions)
               /\ Get(doc, "metadata", JNull) = body.metadata

\* C5: the producer is never closed while the loop is still consuming.
C5_LoopStoppedBeforeProducerClosed ==
    ~(kafka_producer = "closed" /\ loop = "consuming" /\ consumer = "started")

\* C6: once the shutdown hook has run, the loop reaches its end with the
\* consumer stopped.
C6_ShutdownEndsLoop ==
    (app = "shutdown" /\ loop # "not_spawned")
        ~> (loop = "done" /\ consumer # "started")

\* A start of the producer or of the consumer failed and was logged.
StartFailureLogged ==
    \E k \in 1..Len(log) : log[k].err = "KafkaConnectionError"

\* C7: after a failed start no producer is left open and no loop is left
\* consuming, and the startup hook has returned.
C7_StartFailureLeavesStopped ==
    StartFailureLogged =>
        /\ kafka_producer \notin {"created", "started"}
        /\ loop \notin {"spawned", "consuming", "publishing"}
        /\ app # "starting"

----------------------------------------------------------------------------
\* C8: whatever the state of the bus connection, the HTTP handlers answer:
\* GET /health is served and says "healthy", and POST /predict for a
\* registered model answers 200 with a result.
C8_HttpAvailable ==
    /\ app = "serving" => ENABLED HealthCheck
    /\ http_response.route = "health"
          => (http_response.status = 200 /\ http_response.body.status = "healthy")
    /\ (/\ http_response.route = "predict"
        /\ Registered(MODELS, JStr(http_response.request.path)))
          => http_response.status = 200

\* GET /health answered after the start of the producer had failed.
C8_Witness ==
    /\ http_response.route = "health"
    /\ kafka_producer = "None"
    /\ \E k \in 1..Len(log) : log[k].text = "Failed to start Kafka"

\* C9: echo.  A result's model_id is the model_id that was asked for and
\* its input_features are the features that were passed in, on the HTTP
\* channel and on the bus.
C9_Echo ==
    /\ (http_response.route = "predict" /\ http_response.status = 200)
          => /\ http_response.body.model_id = JStr(http_response.request.path)
             /\ http_response.body.input_features
                    = http_response.request.data.features
    /\ \A k \in 1..Len(output_topic) :
          LET doc == output_topic[k].value.doc
              sent == input_topic[output_topic[k].cause].doc
          IN  /\ Get(doc, "model_id", JNull) = Get(sent, "model_id", JNull)
              /\ Get(doc, "input_features", JNull) = Get(sent, "features", JNull)

\* A result with features was returned over HTTP and another published.
C9_Witness ==
    /\ http_response.route = "predict"
    /\ http_response.status = 200
    /\ http_response.body.input_features = FeaturesX
    /\ Len(output_topic) > 0

\* The record carries a model_id and features and the model_id is not in
\* the registry.
NamesUnregistered(m) ==
    /\ m.valid /\ m.doc.t = "obj"
    /\ Truthy(Get(m.doc, "model_id", JNull))
    /\ Truthy(Get(m.doc, "features", JObj({})))
    /\ ~Registered(MODELS, Get(m.doc, "model_id", JNull))

\* C10: a dispatch for a model that is not in the registry raises the 404
\* exception without invoking a capability or constructing a result: the
\* HTTP request is answered 404, and the loop logs the exception, stays
\* in consuming and publishes nothing for the record.
C10_UnregisteredShortCircuits ==
    [][ /\ (/\ http_requests' # http_requests
            /\ ~Registered(MODELS, JStr(http_response'.request.path)))
              => /\ http_response'.status = 404
                 /\ UNCHANGED <<capability_calls, results_made, output_topic>>
        /\ (/\ loop = "consuming"
            /\ offset' = offset + 1
            /\ NamesUnregistered(input_topic[offset]))
              => /\ UNCHANGED <<capability_calls, results_made, output_topic,
                                pending>>
                 /\ loop' = "consuming"
                 /\ Last(log').err = "HTTPException404"
        /\ \A k \in 1..Len(output_topic') :
              ~NamesUnregistered(input_topic'[output_topic'[k].cause]) ]_vars

\* Both channels were asked for a model that is not registered.
C10_Witness ==
    /\ http_response.route = "predict"
    /\ http_response.status = 404
    /\ \E k \in 1..Len(log) : log[k].err = "HTTPException404"

----------------------------------------------------------------------------
\* The prediction_id of an encoded result.
IdOf(value) == Get(value.doc, "prediction_id", JNull)

\* An HTTP response that carries a result.
HttpResult == http_response.route = "predict" /\ http_response.status = 200

\* C11: no two results carry the same prediction_id, whichever channel
\* made them and whether or not their inputs are the same: the published
\* records, the record being sent and the result of the HTTP response are
\* pairwise distinct in prediction_id.
C11_UniquePredictionIds ==
    /\ \A k1, k2 \in 1..Len(output_topic) :
          k1 # k2 => IdOf(output_topic[k1].value) # IdOf(output_topic[k2].value)
    /\ \A k \in 1..Len(output_topic) :
          /\ pending.at # 0 => IdOf(pending.value) # IdOf(output_topic[k].value)
          /\ HttpResult
                => http_response.body.prediction_id # IdOf(output_topic[k].value)
    /\ (HttpResult /\ pending.at # 0)
          => http_response.body.prediction_id # IdOf(pending.value)

\* Two identical records were answered on the bus and a request over HTTP.
C11_Witness ==
    /\ Len(output_topic) = 2
    /\ Len(input_topic) = 2
    /\ input_topic[1] = input_topic[2]
    /\ HttpResult

\* C12: POST /predict/{p} dispatches on p whatever model_id the body
\* carries: for a registered p the answer is 200 with model_id p and the
\* outputs of p's capability, for an unregistered p it is 404 even when
\* the body names a registered model.
C12_PathOverridesBody ==
    http_response.route = "predict" =>
        LET p == JStr(http_response.request.path)
        IN  IF Registered(InitialModels, p)
            THEN /\ http_response.status = 200
                 /\ http_response.body.model_id = p
                 /\ \E rnd \in RandomDraws :
                        http_response.body.predictions
                            = Invoke(ModelInfo(InitialModels, p).predict,
                                     http_response.request.data.features, rnd)
            ELSE http_response.status = 404

\* A request whose body names another registered model than its path.
C12_Witness ==
    /\ HttpResult
    /\ http_response.request.data.model_id # http_response.request.path
    /\ Registered(InitialModels, JStr(http_response.request.data.model_id))

\* C13: the registry is the one bound at import time in every reachable
\* state, no step changes it, and GET /models answers with exactly its
\* identifiers.
C13_RegistryStatic ==
    /\ MODELS = InitialModels
    /\ http_response.route = "models"
          => /\ http_response.status = 200
             /\ { http_response.body[i] : i \in 1..Len(http_response.body) }
                    = { InitialModels[i].id : i \in 1..Len(InitialModels) }

\* GET /models answered after predictions on both channels.
C13_Witness ==
    /\ http_response.route = "models"
    /\ http_requests > 0
    /\ Len(output_topic) > 0
    /\ capability_calls > 1

----------------------------------------------------------------------------
\* C14: start ordering.  The task is spawned only in a step that leaves
\* the producer started; when the loop first begins consuming the producer
\* is live; and once a failure to open the producer is logged the loop is
\* never spawned.
C14_StartOrdering ==
    [][ /\ (loop = "not_spawned" /\ loop' # "not_spawned")
              => kafka_producer' = "started"
        /\ (loop = "spawned" /\ loop' = "consuming")
              => kafka_producer = "started"
        /\ (\E k \in 1..Len(log') : log'[k].text = "Failed to start Kafka")
              => loop' = "not_spawned" ]_vars

----------------------------------------------------------------------------
\* The number of records yielded to the loop body so far.
DeliveredCount == Cardinality({ i \in 1..Len(input_topic) : Delivered(i) })

\* C15: no retry.  The capability has been invoked at most once per
\* delivered record and per HTTP request, every record is yielded to the loop body at most once,
\* and a record whose dispatch or publish failed has nothing in the
\* output topic, now or later.
C15_NoRetry ==
    /\ capability_calls <= DeliveredCount + http_requests
    /\ \A i \in 1..Len(input_topic) :
          /\ i >= offset => ~Delivered(i)
          /\ Cardinality({ k \in 1..Len(log) :
                              log[k].at = i /\ log[k].text = "Received message" }) <= 1
          /\ (MessageFailed(i) \/ PublishFailed(i))
                => (Answers(i) = {} /\ pending.at # i)

\* A publish failed, nothing was published for the record, and the loop
\* went on to the next record.
C15_Witness ==
    \E i, j \in 1..Len(input_topic) :
        /\ i < j
        /\ PublishFailed(i)
        /\ Answers(i) = {}
        /\ Answers(j) # {}

----------------------------------------------------------------------------
\* C17: the channels do not share egress.  A step that answers an HTTP
\* request leaves the output topic and the loop's pending send alone; the
\* output topic only grows by the one record the loop was sending, which
\* answers an inbound record that had no answer yet.
C17_SeparateEgress ==
    [][ /\ http_response' # http_response
              => UNCHANGED <<output_topic, pending, log>>
        /\ output_topic' # output_topic
              => /\ loop = "publishing"
                 /\ pending.at \in 1..Len(input_topic)
                 /\ Answers(pending.at) = {}
                 /\ output_topic' = Append(output_topic,
                                           [topic |-> KAFKA_OUTPUT_TOPIC,
                                            value |-> pending.value,
                                            cause |-> pending.at]) ]_vars

\* Two results were made, one returned over HTTP and one published.
C17_Witness ==
    /\ HttpResult
    /\ results_made = 2
    /\ Len(output_topic) = 1
    /\ pending.at = 0

----------------------------------------------------------------------------
\* The object has no model_id or an empty one, or no features or an empty
\* features map.
LacksModelOrFeatures(doc) ==
    \/ ~HasKey(doc, "model_id")
    \/ Get(doc, "model_id", JNull) = JStr("")
    \/ ~HasKey(doc, "features")
    \/ Get(doc, "features", JNull) = JObj({})

\* The object follows the inbound contract where it has the fields:
\* model_id is a string and features is an object.
TypedInbound(doc) ==
    /\ Get(doc, "model_id", JStr("")).t = "str"
    /\ Get(doc, "features", JObj({})).t = "obj"

----------------------------------------------------------------------------
\* C19: once the consumer itself has failed the loop is over for good: no
\* step leaves "done" or touches the consumer again; the consumer goes to
\* "stopped" only from "started" (so at most once) and the ended loop has
\* a stopped consumer exactly when "Kafka consumer started" was logged;
\* the step that ends the loop logs "Kafka consumer error" and changes
\* neither the application state nor the producer.
C19_ConsumerFailureEndsLoop ==
    [][ /\ loop = "done" => (loop' = "done" /\ consumer' = consumer)
        /\ (consumer' = "stopped" /\ consumer # "stopped")
              => consumer = "started"
        /\ consumer = "stopped" => consumer' = "stopped"
        /\ (loop # "done" /\ loop' = "done")
              => /\ loop \in {"spawned", "consuming"}
                 /\ consumer' = (IF loop = "consuming" THEN "stopped" ELSE "created")
                 /\ (consumer' = "stopped")
                       <=> (\E k \in 1..Len(log) :
                               log[k].text = "Kafka consumer started")
                 /\ Len(log') = Len(log) + 1
                 /\ Last(log').text = "Kafka consumer error"
                 /\ UNCHANGED <<app, kafka_producer, output_topic, pending,
                                offset>> ]_vars

\* The iteration raised while the producer was open and a record was
\* still waiting: the loop is over, the consumer stopped, the producer
\* still open and the application still serving.
C19_Witness ==
    /\ loop = "done"
    /\ consumer = "stopped"
    /\ kafka_producer = "started"
    /\ app = "serving"
    /\ broker = "up"
    /\ offset <= Len(input_topic)
    /\ Last(log).text = "Kafka consumer error"

----------------------------------------------------------------------------
\* C20: one record at a time.  The loop takes the next record only while
\* it is consuming with no publish call outstanding; while a publish call
\* is outstanding it is the one made for the record just taken and the
\* offset does not move; so the output topic answers the input records
\* in their order.
C20_OneAtATime ==
    [][ /\ (loop # "spawned" /\ offset' # offset)
              => /\ loop = "consuming"
                 /\ pending = NoPending
                 /\ offset' = offset + 1
        /\ loop = "publishing"
              => /\ pending.at = offset - 1
                 /\ offset' = offset
        /\ pending' # NoPending => loop' = "publishing"
        /\ \A a, b \in 1..Len(output_topic') :
              a < b => output_topic'[a].cause < output_topic'[b].cause ]_vars

\* Two records were answered, the earlier one first, and the second was
\* taken only after the publish call for the first had returned.
C20_Witness ==
    /\ Len(output_topic) = 2
    /\ output_topic[1].cause < output_topic[2].cause
    /\ \E k, l \in 1..Len(log) :
          /\ k < l
          /\ log[k].text = "Sent prediction result"
          /\ log[k].at = output_topic[1].cause
          /\ log[l].text = "Received message"
          /\ log[l].at = output_topic[2].cause

====
